---- MODULE Spec2Model ----
(***************************************************************************)
(* Model of the in-process TTL/LRU cache (CacheManager) of the repository. *)
(*                                                                         *)
(* Time is a discrete clock; every time.Now()/time.Since() of a handler    *)
(* reads it.  The clock advances only by AdvanceClock, so several handlers *)
(* can run at the same clock reading.  A handler that runs under the       *)
(* store's lock from its first to its last statement is one action.        *)
(***************************************************************************)
EXTENDS Integers, FiniteSets, Sequences, TLC

\* ---------------------------------------------------------------- bounds
MaxClock == 3          \* the clock runs over 0..MaxClock
MaxOps == 4            \* number of handler calls in one behaviour
MaxTime == 5           \* the clock of the store with a reaper: 0..MaxTime

\* ------------------------------------------------------ program parameters
Capacity == 2          \* NewCacheManager(maxSize, ...)
DefaultTTL == 2        \* NewCacheManager(..., defaultTTL, ...)
CleanupTick == 2       \* NewCacheManager(..., cleanupTick)

Keys == {"", "a", "b"}         \* "" is the zero value of lru's oldestKey
Values == {"x"}               \* value arguments of Set
TTLValues == {"y"}            \* value arguments of SetWithTTL
TTLs == {1}                   \* ttl arguments of SetWithTTL
NoKey == "-"
Nil == "nil"

VARIABLES
    Cache,        \* cm.Cache: a function from the keys present to entries
    Stats,        \* cm.Stats: [Hits, Misses, Evictions, Size]
    clock,        \* the reading of time.Now()
    reaper,       \* the goroutine of StartCleanup: "none" | "running" | "done"
    cancelled,    \* ctx.Done() of the context given to StartCleanup is closed
    tickPending,  \* a tick waits in ticker.C
    nextTick,     \* the time at which the ticker sends its next tick
    lastOp,       \* history: the last handler call, its ok/found and result
    opCount,      \* history: number of handler calls so far
    written,      \* history: per key, the last Set/SetWithTTL and reads since
    pc,           \* main: position of each goroutine of main()
    held,         \* main: the entry pointer v a Get read under RLock
    rl,           \* the RateLimiter: Rate, Capacity, CurrentTokensNum, ...
    rlpc,         \* rate limiter: position of each calling goroutine
    rlh,          \* rate limiter history: calls, grants, refills, last return
    rlclock,      \* rate limiter: time.Now() in ticks of 1/TicksPerSecond s
    lb,           \* the LoadBalancer and the call in progress
    lk            \* cm.mu and the goroutines that call the store concurrently

\* The variables of the programs other than the cache store.
otherVars == <<rl, rlpc, rlh, rlclock, lb, lk>>

\* The variables of the cache store.
cacheVars == <<Cache, Stats, clock, reaper, cancelled, tickPending, nextTick,
               lastOp, opCount, written, pc, held>>

vars == <<cacheVars, otherVars>>

\* ----------------------------------------------------------------- types
CacheValue(value, ttl, lastAccess) ==
    [Value |-> value, TTL |-> ttl, LastAccess |-> lastAccess]

CacheStats == [Hits |-> 0, Misses |-> 0, Evictions |-> 0, Size |-> 0]

NoOp == [op |-> "none", key |-> NoKey, value |-> Nil, ttl |-> 0,
         found |-> FALSE, at |-> 0, stats |-> CacheStats]

NeverWritten == [at |-> -1, ttl |-> 0, read |-> FALSE]

CacheLen(cache) == Cardinality(DOMAIN cache)

\* delete(cm.Cache, k)
MapDelete(cache, k) == [j \in (DOMAIN cache) \ {k} |-> cache[j]]

\* Variant of MapStore: stores only when the key is absent.
MapStoreIfAbsent(cache, k, e) ==
    IF k \in DOMAIN cache THEN cache
    ELSE [j \in (DOMAIN cache) \cup {k} |-> e] @@ cache

\* cm.Cache[k] = e
MapStore(cache, k, e) ==
    [j \in (DOMAIN cache) \cup {k} |-> IF j = k THEN e ELSE cache[j]]

\* Variant of Expired: an entry expires as soon as its age reaches the TTL.
ExpiredAtTTL(v, now) == now - v.LastAccess >= v.TTL

\* time.Since(v.LastAccess) > v.TTL   /   now.Sub(v.LastAccess) > v.TTL
Expired(v, now) == now - v.LastAccess > v.TTL

\* ------------------------------------------------------------------- lru
\* Variant of LruOldestKeys: the scan keeps the newest entry, not the
\* oldest.
LruNewestKeys(cache, now) ==
    LET newer == DOMAIN cache
    IN  IF newer = {}
        THEN {""}
        ELSE {k \in newer :
                \A j \in newer : cache[k].LastAccess >= cache[j].LastAccess}

\* The values oldestKey can have after the scan of lru: oldestTime starts at
\* time.Now() and only an entry strictly older replaces it, so the result is
\* an entry of minimal LastAccess if one is older than now (which one, among
\* equals, depends on Go's map iteration order) and "" otherwise.
LruOldestKeys(cache, now) ==
    LET older == {k \in DOMAIN cache : cache[k].LastAccess < now}
    IN  IF older = {}
        THEN {""}
        ELSE {k \in older :
                \A j \in older : cache[k].LastAccess <= cache[j].LastAccess}

\* lru(): delete(cm.Cache, oldestKey); Evictions++
Lru(cache, stats, oldestKey) ==
    [cache |-> MapDelete(cache, oldestKey),
     stats |-> [stats EXCEPT !.Evictions = @ + 1]]

\* ------------------------------------------------------------- operations
\* History of a handler call: calls are counted and the last one recorded.
Called(op) ==
    /\ opCount < MaxOps
    /\ opCount' = opCount + 1
    /\ lastOp' = op

\* Variant of Full: the capacity test is off by one.
FullOffByOne(cache, key) ==
    key \notin DOMAIN cache /\ CacheLen(cache) >= Capacity - 1

\* !ok && len(cm.Cache) == cm.Capacity
Full(cache, key) == key \notin DOMAIN cache /\ CacheLen(cache) = Capacity

\* The body Set and SetWithTTL share, run under cm.mu.Lock(): evict when a
\* new key meets a full map, then store a fresh entry stamped time.Now().
Insert(name, key, value, ttl) ==
    /\ \E oldestKey \in LruOldestKeys(Cache, clock) :
         LET after == IF Full(Cache, key) THEN Lru(Cache, Stats, oldestKey)
                      ELSE [cache |-> Cache, stats |-> Stats]
         IN  /\ Cache' = MapStore(after.cache, key,
                                  CacheValue(value, ttl, clock))
             /\ Stats' = after.stats
    /\ Called([NoOp EXCEPT !.op = name, !.key = key, !.value = value,
                           !.ttl = ttl, !.at = clock,
                           !.found = key \in DOMAIN Cache])
    /\ written' = [written EXCEPT ![key] =
                      [at |-> clock, ttl |-> ttl, read |-> FALSE]]

Set(key, value) ==
    /\ Insert("Set", key, value, DefaultTTL)
    /\ UNCHANGED <<otherVars, clock, reaper, cancelled, tickPending, nextTick,
                   pc, held>>

SetWithTTL(key, value, ttl) ==
    /\ Insert("SetWithTTL", key, value, ttl)
    /\ UNCHANGED <<otherVars, clock, reaper, cancelled, tickPending, nextTick,
                   pc, held>>

\* v, ok := cm.Cache[key]; NoEntry stands for !ok.
NoEntry == CacheValue(Nil, -1, -1)

Lookup(cache, key) == IF key \in DOMAIN cache THEN cache[key] ELSE NoEntry

\* Variant of GetFound: the TTL comparison is missing.
GetFoundNoExpiry(v, now) == v # NoEntry

\* !(!ok || time.Since(v.LastAccess) > v.TTL)
GetFound(v, now) == v # NoEntry /\ ~Expired(v, now)

\* Variant of GetCount: an expired or absent key is counted as a hit too.
GetCountHitsOnly(stats, found) == [stats EXCEPT !.Hits = @ + 1]

\* atomic.AddInt64 on Misses or Hits
GetCount(stats, found) ==
    IF found THEN [stats EXCEPT !.Hits = @ + 1]
    ELSE [stats EXCEPT !.Misses = @ + 1]

\* What Get returns.
GetResult(v, now) ==
    [found |-> GetFound(v, now),
     value |-> IF GetFound(v, now) THEN v.Value ELSE Nil]

\* Get leaves the map, and the entry it read, as they are.
Get(key) ==
    LET v == Lookup(Cache, key)
        r == GetResult(v, clock)
    IN  /\ Stats' = GetCount(Stats, r.found)
        /\ Called([NoOp EXCEPT !.op = "Get", !.key = key, !.found = r.found,
                               !.value = r.value, !.at = clock])
        /\ written' = [written EXCEPT ![key].read = @ \/ r.found]
        /\ UNCHANGED <<otherVars, Cache, clock, reaper, cancelled, tickPending,
                       nextTick, pc, held>>

Delete(key) ==
    /\ Cache' = MapDelete(Cache, key)
    /\ Called([NoOp EXCEPT !.op = "Delete", !.key = key, !.at = clock])
    /\ UNCHANGED <<otherVars, Stats, clock, reaper, cancelled, tickPending,
                   nextTick, written, pc, held>>

\* Variant of Clear: the statistics are reset with the map.
ClearResetsStats ==
    /\ Cache' = <<>>
    /\ Stats' = CacheStats
    /\ Called([NoOp EXCEPT !.op = "Clear", !.at = clock])
    /\ UNCHANGED <<otherVars, clock, reaper, cancelled, tickPending, nextTick,
                   written, pc, held>>

Clear ==
    /\ Cache' = <<>>
    /\ Called([NoOp EXCEPT !.op = "Clear", !.at = clock])
    /\ UNCHANGED <<otherVars, Stats, clock, reaper, cancelled, tickPending,
                   nextTick, written, pc, held>>

\* Variant of SweepExpired: the loop stops after its first deletion.
SweepExpiredOne(cache, now) ==
    LET all == {k \in DOMAIN cache : Expired(cache[k], now)}
    IN  IF all = {} THEN {} ELSE {CHOOSE k \in all : TRUE}

\* The entries the loop of ClearByTTL deletes.
SweepExpired(cache, now) == {k \in DOMAIN cache : Expired(cache[k], now)}

\* The loop of ClearByTTL: Evictions++ and cm.Delete(k) per expired entry.
Sweep(cache, stats, now) ==
    LET gone == SweepExpired(cache, now)
    IN  [cache |-> [j \in (DOMAIN cache) \ gone |-> cache[j]],
         stats |-> [stats EXCEPT !.Evictions = @ + Cardinality(gone)]]

ClearByTTL ==
    /\ Cache' = Sweep(Cache, Stats, clock).cache
    /\ Stats' = Sweep(Cache, Stats, clock).stats
    /\ Called([NoOp EXCEPT !.op = "ClearByTTL", !.at = clock])
    /\ UNCHANGED <<otherVars, clock, reaper, cancelled, tickPending, nextTick,
                   written, pc, held>>

\* atomic.StoreInt64(&cm.Stats.Size, 1)
StatsSize(cache) == 1

GetStats ==
    /\ Stats' = [Stats EXCEPT !.Size = StatsSize(Cache)]
    /\ Called([NoOp EXCEPT !.op = "GetStats", !.at = clock,
                           !.stats = Stats'])
    /\ UNCHANGED <<otherVars, Cache, clock, reaper, cancelled, tickPending,
                   nextTick, written, pc, held>>

\* ------------------------------------------------------------------ time
\* time.NewTicker(cm.CleanupTick): once started, the ticker puts a tick into
\* ticker.C (capacity 1; a tick that finds the channel full is dropped)
\* every CleanupTick.
TickerFires(t) == reaper # "none" /\ t >= nextTick

Elapse(bound) ==
    /\ clock < bound
    /\ clock' = clock + 1
    /\ IF TickerFires(clock + 1)
       THEN tickPending' = TRUE /\ nextTick' = nextTick + CleanupTick
       ELSE UNCHANGED <<tickPending, nextTick>>
    /\ UNCHANGED <<otherVars, Cache, Stats, reaper, cancelled, lastOp, opCount,
                   written, pc, held>>

\* Time passes between two steps of the program.
AdvanceClock == Elapse(MaxClock)

\* ---------------------------------------------------------------- reaper
StartCleanup ==
    /\ reaper = "none"
    /\ reaper' = "running"
    /\ nextTick' = clock + CleanupTick
    /\ UNCHANGED <<otherVars, Cache, Stats, clock, cancelled, tickPending,
                   lastOp, opCount, written, pc, held>>

\* The owner cancels the context it gave to StartCleanup.
Cancel ==
    /\ reaper # "none"
    /\ ~cancelled
    /\ cancelled' = TRUE
    /\ UNCHANGED <<otherVars, Cache, Stats, clock, reaper, tickPending,
                   nextTick, lastOp, opCount, written, pc, held>>

\* case <-ticker.C: cm.ClearByTTL()
ReaperTick ==
    /\ reaper = "running"
    /\ tickPending
    /\ tickPending' = FALSE
    /\ Cache' = Sweep(Cache, Stats, clock).cache
    /\ Stats' = Sweep(Cache, Stats, clock).stats
    /\ lastOp' = [NoOp EXCEPT !.op = "ReaperTick", !.at = clock]
    /\ UNCHANGED <<otherVars, clock, reaper, cancelled, nextTick, opCount,
                   written, pc, held>>

\* Variant of ReaperExit: the case leaves the select, not the loop.
ReaperExitBreak ==
    /\ reaper = "running"
    /\ cancelled
    /\ UNCHANGED vars

\* case <-ctx.Done(): return
ReaperExit ==
    /\ reaper = "running"
    /\ cancelled
    /\ reaper' = "done"
    /\ UNCHANGED <<otherVars, Cache, Stats, clock, cancelled, tickPending,
                   nextTick, lastOp, opCount, written, pc, held>>

\* Time passes, but not while the running reaper has a tick to serve: the
\* sweep of a tick is over before the clock reads the next value.
AdvanceTimed ==
    /\ ~(reaper = "running" /\ tickPending)
    /\ Elapse(MaxTime)

\* The owner starts the reaper and then inserts each key at most once, no
\* more keys than the store holds.
ReaperKeys == {"a", "b"}

ReaperSet(key, value) ==
    /\ reaper # "none"
    /\ written[key].at < 0
    /\ Set(key, value)

ReaperSetWithTTL(key, value, ttl) ==
    /\ reaper # "none"
    /\ written[key].at < 0
    /\ SetWithTTL(key, value, ttl)

\* ------------------------------------------------------------------ main
\* main(): goroutine i of the first loop calls Set(key i, value i); after
\* wg.Wait() goroutine i of the second loop calls Get(key i).  Set holds the
\* lock from start to end; Get reads the entry pointer under RLock and
\* compares and counts after RUnlock.
MainN == Capacity

MainKey == <<"a", "b", "", "c">>

MainValue == <<"x", "y", "z", "w">>

MainSet(i) ==
    /\ pc[i] = "set"
    /\ Insert("Set", MainKey[i], MainValue[i], DefaultTTL)
    /\ pc' = [pc EXCEPT ![i] = "barrier"]
    /\ UNCHANGED <<otherVars, clock, reaper, cancelled, tickPending, nextTick,
                   held>>

\* cm.mu.RLock(); v, ok := cm.Cache[key]; cm.mu.RUnlock()
MainGetLookup(i) ==
    /\ pc[i] = "barrier"
    /\ \A j \in 1..MainN : pc[j] # "set"
    /\ pc' = [pc EXCEPT ![i] = "check"]
    /\ held' = [held EXCEPT ![i].v = Lookup(Cache, MainKey[i])]
    /\ UNCHANGED <<otherVars, Cache, Stats, clock, reaper, cancelled,
                   tickPending, nextTick, lastOp, opCount, written>>

\* the comparison, the counter and the return of Get
MainGetCheck(i) ==
    LET r == GetResult(held[i].v, clock)
    IN  /\ pc[i] = "check"
        /\ pc' = [pc EXCEPT ![i] = "done"]
        /\ Stats' = GetCount(Stats, r.found)
        /\ held' = [held EXCEPT ![i].found = r.found, ![i].value = r.value,
                                ![i].at = clock]
        /\ UNCHANGED <<otherVars, Cache, clock, reaper, cancelled, tickPending,
                       nextTick, lastOp, opCount, written>>

\* ========================================================== rate limiter
\* RateLimiter (src/RateLimiter/main.go).  Time is counted in ticks of
\* 1/TicksPerSecond seconds.  UpdateTokensNum and the decrements run under
\* rl.mu, each as one step; the tests of CurrentTokensNum in Allow, Wait and
\* WaitN are made without the lock, between such steps.
TicksPerSecond == 4

MaxRLClock == 5        \* the limiter's clock runs over 0..MaxRLClock
MaxRLCalls == 5        \* number of calls of the limiter's methods

RLCapacity == 3        \* NewRateLimiter(rate, capacity)
RLRates == {1, 2}      \* NewRateLimiter(rate, capacity)
RLNs == {1, 2, 3}      \* n arguments of WaitN
RLProcs == {1, 2}      \* goroutines that call the limiter

\* What the last completed call returned, and when.
NoReturn == [op |-> "none", res |-> "none", at |-> 0]

Returned(op, res) == [op |-> op, res |-> res, at |-> rlclock]

\* A goroutine outside every method of the limiter.
RLIdle == [pc |-> "idle", n |-> 0, deadline |-> 0]

\* History: the methods called so far are only Allow (0), only Allow and
\* GetAvailableTokens (1), or any (2).
OnlyAllow == 0
OnlyReads == 1
AnyCall == 2

Max(a, b) == IF a > b THEN a ELSE b

Min(a, b) == IF a < b THEN a ELSE b

\* int(elapsed.Seconds() * float64(rl.Rate)), elapsed in ticks
TokensToAdd(elapsed, rate) == (elapsed * rate) \div TicksPerSecond

\* UpdateTokensNum, under rl.mu
UpdateTokensNum(r, now) ==
    [r EXCEPT !.CurrentTokensNum =
                  Min(@ + TokensToAdd(now - r.LastUpdate, r.Rate), r.Capacity),
              !.LastUpdate = now]

\* History: a call of kind mix starts.
RLCalled(h, mix) == [h EXCEPT !.calls = @ + 1, !.mix = Max(@, mix)]

\* History: the tokens UpdateTokensNum or Reset put into the bucket.
Refilled(h, before, after) ==
    [h EXCEPT !.refilled = @ + (after.CurrentTokensNum
                                - before.CurrentTokensNum)]

\* History: Allow took a token.  emptyAt is the time the bucket was first
\* emptied, sinceEmpty the tokens Allow took after that, firstGrant the time
\* of the first of them.
Granted(h, after) ==
    [h EXCEPT !.allows = @ + 1,
              !.granted = @ + 1,
              !.emptyAt = IF @ = -1 /\ after.CurrentTokensNum = 0
                          THEN rlclock ELSE @,
              !.sinceEmpty = IF h.emptyAt >= 0 THEN @ + 1 ELSE @,
              !.firstGrant = IF h.emptyAt >= 0 /\ @ = -1 THEN rlclock ELSE @,
              !.last = Returned("Allow", "true")]

\* A call may start: the program has not panicked.
RLMayCall(g) ==
    /\ rlh.calls < MaxRLCalls
    /\ ~rl.panicked
    /\ rlpc[g].pc = "idle"

\* Allow: rl.UpdateTokensNum()
RLAllowStart(g) ==
    /\ RLMayCall(g)
    /\ rl' = UpdateTokensNum(rl, rlclock)
    /\ rlpc' = [rlpc EXCEPT ![g].pc = "allow:check"]
    /\ rlh' = Refilled(RLCalled(rlh, OnlyAllow), rl, rl')
    /\ UNCHANGED <<cacheVars, rlclock, lb, lk>>

\* Variant of HasToken: an empty bucket passes.
HasTokenOrEmpty(r) == r.CurrentTokensNum >= 0

\* Allow: if rl.CurrentTokensNum >= 1
HasToken(r) == r.CurrentTokensNum >= 1

\* Allow: the test of rl.CurrentTokensNum, made without rl.mu; return false
RLAllowCheck(g) ==
    /\ rlpc[g].pc = "allow:check"
    /\ IF HasToken(rl)
       THEN /\ rlpc' = [rlpc EXCEPT ![g].pc = "allow:dec"]
            /\ UNCHANGED rlh
       ELSE /\ rlpc' = [rlpc EXCEPT ![g] = RLIdle]
            /\ rlh' = [rlh EXCEPT !.allows = @ + 1,
                                  !.last = Returned("Allow", "false")]
    /\ UNCHANGED <<cacheVars, rl, rlclock, lb, lk>>

\* Allow: rl.mu.Lock(); rl.CurrentTokensNum--; rl.mu.Unlock(); return true
RLAllowDec(g) ==
    /\ rlpc[g].pc = "allow:dec"
    /\ rl' = [rl EXCEPT !.CurrentTokensNum = @ - 1]
    /\ rlpc' = [rlpc EXCEPT ![g] = RLIdle]
    /\ rlh' = Granted(rlh, rl')
    /\ UNCHANGED <<cacheVars, rlclock, lb, lk>>

\* GetAvailableTokens: rl.UpdateTokensNum(); return rl.CurrentTokensNum
RLGetAvailableTokens(g) ==
    /\ RLMayCall(g)
    /\ rl' = UpdateTokensNum(rl, rlclock)
    /\ rlh' = [Refilled(RLCalled(rlh, OnlyReads), rl, rl') EXCEPT
                  !.last = Returned("GetAvailableTokens", "int")]
    /\ UNCHANGED <<cacheVars, rlpc, rlclock, lb, lk>>

\* Reset, under rl.mu
RLReset(g) ==
    /\ RLMayCall(g)
    /\ rl' = [rl EXCEPT !.CurrentTokensNum = rl.Capacity]
    /\ rlh' = [Refilled(RLCalled(rlh, AnyCall), rl, rl') EXCEPT
                  !.last = Returned("Reset", "none")]
    /\ UNCHANGED <<cacheVars, rlpc, rlclock, lb, lk>>

\* time.Duration(1.0/rl.Rate) * time.Second in Wait and
\* time.Duration(n/rl.Rate) * time.Second in WaitN: both quotients are
\* integer divisions; the result is in ticks.
WaitInterval(op, n, rate) ==
    (IF op = "Wait" THEN 1 \div rate ELSE n \div rate) * TicksPerSecond

\* Wait / WaitN up to the select: time.NewTicker panics when the interval
\* is not positive.
RLWaitStart(g, op, n) ==
    /\ RLMayCall(g)
    /\ IF WaitInterval(op, n, rl.Rate) <= 0
       THEN /\ rl' = [rl EXCEPT !.panicked = TRUE]
            /\ rlpc' = rlpc
            /\ rlh' = [RLCalled(rlh, AnyCall) EXCEPT
                          !.last = Returned(op, "panic")]
       ELSE /\ rl' = rl
            /\ rlpc' = [rlpc EXCEPT ![g] =
                          [pc |-> op, n |-> n,
                           deadline |-> rlclock
                                        + WaitInterval(op, n, rl.Rate)]]
            /\ rlh' = RLCalled(rlh, AnyCall)
    /\ UNCHANGED <<cacheVars, rlclock, lb, lk>>

\* A goroutine in the select of Wait or WaitN.
Waiting(g) == rlpc[g].pc \in {"Wait", "WaitN"}

\* case <-ctx.Done(): return ctx.Err()
RLWaitCancel(g) ==
    /\ Waiting(g)
    /\ ~rl.panicked
    /\ rlpc' = [rlpc EXCEPT ![g] = RLIdle]
    /\ rlh' = [rlh EXCEPT !.last = Returned(rlpc[g].pc, "ctxErr")]
    /\ UNCHANGED <<cacheVars, rl, rlclock, lb, lk>>

\* case <-ticker.C: if rl.GetAvailableTokens() >= n { break }
\* The break leaves the select; so does the end of the case.
RLWaitTick(g) ==
    /\ Waiting(g)
    /\ ~rl.panicked
    /\ rlclock >= rlpc[g].deadline
    /\ rl' = UpdateTokensNum(rl, rlclock)
    /\ rlpc' = [rlpc EXCEPT ![g].pc = "dec:" \o rlpc[g].pc]
    /\ rlh' = Refilled(rlh, rl, rl')
    /\ UNCHANGED <<cacheVars, rlclock, lb, lk>>

\* rl.mu.Lock(); rl.CurrentTokensNum -= n (or --); rl.mu.Unlock(); return nil
RLWaitDec(g) ==
    /\ rlpc[g].pc \in {"dec:Wait", "dec:WaitN"}
    /\ ~rl.panicked
    /\ rl' = [rl EXCEPT !.CurrentTokensNum = @ - rlpc[g].n]
    /\ rlpc' = [rlpc EXCEPT ![g] = RLIdle]
    /\ rlh' = [rlh EXCEPT !.last = Returned(IF rlpc[g].pc = "dec:Wait"
                                            THEN "Wait" ELSE "WaitN", "nil")]
    /\ UNCHANGED <<cacheVars, rlclock, lb, lk>>

\* Time passes between calls and while a goroutine waits for its ticker.
RLElapse ==
    /\ rlclock < MaxRLClock
    /\ ~rl.panicked
    /\ \A g \in RLProcs : rlpc[g].pc = "idle" \/ Waiting(g)
    /\ rlclock' = rlclock + 1
    /\ UNCHANGED <<cacheVars, rl, rlpc, rlh, lb, lk>>

\* ========================================================= load balancer
\* LoadBalancer (src/unnamed/part_002).  One goroutine calls Get and Post;
\* every pass of the retry loop is one step, with the answer of the HTTP
\* client chosen by the environment.
NumBackends == 3       \* len(lb.Backends); backends are numbered from 0
MaxLBCalls == 2        \* number of calls of Get and Post

LBMethods == {"Get", "Post"}

\* Answers of lb.Client.Get / lb.Client.Post: a status class, a transport
\* error without a response (resp == nil), or an error that comes with a
\* response (a refused redirect).
LBAnswers == {"2xx", "4xx", "5xx", "err", "redirectErr"}

\* Results of io.ReadAll(resp.Body)
LBReads == {"ok", "readErr"}

NoResult == [kind |-> "none", from |-> -1]

\* NewLoadBalancer(backends)
NewLoadBalancer ==
    [Counter |-> 0,
     TotalRequests |-> 0,
     RequestsPerBackend |-> [b \in 0 .. NumBackends - 1 |-> 0],
     calls |-> 0, pc |-> "idle", method |-> "none",
     backendNum |-> 0, tryCount |-> 0, tried |-> <<>>, answers |-> <<>>,
     result |-> NoResult]

\* BalancerStats.AddRequest(backend)
AddRequest(l, b) ==
    [l EXCEPT !.TotalRequests = @ + 1, !.RequestsPerBackend[b] = @ + 1]

\* The backend a pass of the loop sends its request to: url is computed once,
\* before the loop, from backendNum.
BackendOfTry(l) == l.backendNum

\* Get / Post up to the loop: backendNum := lb.Counter % len(lb.Backends);
\* case <-ctx.Done(): return nil, ctx.Err()
LBCall(method, done) ==
    /\ lb.pc = "idle"
    /\ lb.calls < MaxLBCalls
    /\ lb' = IF done
             THEN [lb EXCEPT !.calls = @ + 1, !.method = method,
                             !.tried = <<>>, !.answers = <<>>,
                             !.result = [kind |-> "ctxErr", from |-> -1]]
             ELSE [lb EXCEPT !.calls = @ + 1, !.method = method,
                             !.pc = "loop",
                             !.backendNum = lb.Counter % NumBackends,
                             !.tryCount = 0,
                             !.tried = <<>>, !.answers = <<>>,
                             !.result = NoResult]
    /\ UNCHANGED <<cacheVars, rl, rlpc, rlh, rlclock, lk>>

\* The end of a pass that failed: tryCount++; continue; and, when the loop
\* condition tryCount <= 2 then fails, return nil, errors.New("")
Retry(l) ==
    IF l.tryCount + 1 <= 2
    THEN [l EXCEPT !.tryCount = @ + 1]
    ELSE [l EXCEPT !.tryCount = @ + 1, !.pc = "idle",
                   !.result = [kind |-> "error", from |-> -1]]

\* One pass of the loop.
LBAttempt(answer, read) ==
    /\ lb.pc = "loop"
    /\ LET sent == [AddRequest(lb, lb.backendNum) EXCEPT
                       !.Counter = @ + 1,
                       !.tried = Append(@, BackendOfTry(lb)),
                       !.answers = Append(@, answer)]
       IN  lb' = CASE answer = "err" ->
                        \* resp is nil: resp.Body.Close() panics
                        [sent EXCEPT !.pc = "panic",
                                     !.result = [kind |-> "panic",
                                                 from |-> -1]]
                   [] answer \in {"5xx", "redirectErr"} -> Retry(sent)
                   [] OTHER ->
                        [sent EXCEPT
                            !.pc = "idle",
                            !.result = IF read = "ok"
                                       THEN [kind |-> "body",
                                             from |-> BackendOfTry(lb)]
                                       ELSE [kind |-> "readErr",
                                             from |-> -1]]
    /\ UNCHANGED <<cacheVars, rl, rlpc, rlh, rlclock, lk>>

\* ============================================================== cm.mu
\* The store's methods step by step, each goroutine taking and releasing
\* cm.mu where the code does.  An access to the map that overlaps a write of
\* it by another goroutine is a data race: it takes effect or the runtime
\* stops the program ("concurrent map read and map write").
LKProcs == {1, 2}      \* goroutines that call the store
LKKeys == {"a", "b"}   \* their key arguments
MaxLockCalls == 3      \* number of calls they make

LKWriters == {"Set", "SetWithTTL", "Clear", "ClearByTTL"}

NoCall == [op |-> "none", key |-> NoKey, v |-> NoEntry]

\* sync.RWMutex unlocked, every goroutine outside the store's methods.
NewLock ==
    [w |-> 0, r |-> {}, calls |-> 0, crashed |-> FALSE,
     at |-> [g \in LKProcs |-> "idle"],
     call |-> [g \in LKProcs |-> NoCall]]

\* What the steps on cm.mu leave alone.
LKFrame ==
    UNCHANGED <<rl, rlpc, rlh, rlclock, lb, clock, reaper, cancelled,
                tickPending, nextTick, lastOp, opCount, written, pc, held>>

LKMayCall(g) ==
    /\ ~lk.crashed
    /\ lk.at[g] = "idle"
    /\ lk.calls < MaxLockCalls

\* Positions at which a goroutine is writing the map, and reading it.
MapWriter(g) == lk.at[g] \in {"write", "delete:write"}

MapReader(g) == lk.at[g] \in {"read", "delete:check"}

\* The next access of g to the map overlaps an access of another goroutine,
\* one of the two being a write.
Races(g) ==
    \E h \in LKProcs \ {g} :
        \/ MapWriter(g) /\ (MapWriter(h) \/ MapReader(h))
        \/ MapReader(g) /\ MapWriter(h)

\* The outcomes of an access: it takes effect, or (in a race) the runtime
\* may stop the program.
Crashes(g) == IF Races(g) THEN BOOLEAN ELSE {FALSE}

Crash == /\ lk' = [lk EXCEPT !.crashed = TRUE]
         /\ UNCHANGED <<Cache, Stats>>

\* cm.mu.Lock() at the head of Set, SetWithTTL, Clear and ClearByTTL
LKLock(g, op, key) ==
    /\ LKMayCall(g)
    /\ lk.w = 0 /\ lk.r = {}
    /\ lk' = [lk EXCEPT !.w = g, !.calls = @ + 1, !.at[g] = "write",
                        !.call[g] = [NoCall EXCEPT !.op = op, !.key = key]]
    /\ UNCHANGED <<Cache, Stats>>
    /\ LKFrame

\* The body of Set, SetWithTTL, Clear or ClearByTTL.
LKWrite(g) ==
    /\ ~lk.crashed
    /\ lk.at[g] = "write"
    /\ \E crash \in Crashes(g) :
         IF crash THEN Crash
         ELSE
           LET c == lk.call[g] IN
           /\ lk' = [lk EXCEPT !.at[g] = "unlock"]
           /\ CASE c.op \in {"Set", "SetWithTTL"} ->
                     \E oldestKey \in LruOldestKeys(Cache, clock) :
                       LET after == IF Full(Cache, c.key)
                                    THEN Lru(Cache, Stats, oldestKey)
                                    ELSE [cache |-> Cache, stats |-> Stats]
                           ttl == IF c.op = "Set" THEN DefaultTTL
                                  ELSE CHOOSE t \in TTLs : TRUE
                       IN  /\ Cache' = MapStore(after.cache, c.key,
                                                CacheValue("x", ttl, clock))
                           /\ Stats' = after.stats
                [] c.op = "Clear" ->
                     /\ Cache' = <<>>
                     /\ Stats' = Stats
                [] OTHER ->
                     /\ Cache' = Sweep(Cache, Stats, clock).cache
                     /\ Stats' = Sweep(Cache, Stats, clock).stats
    /\ LKFrame

\* defer cm.mu.Unlock()
LKUnlock(g) ==
    /\ ~lk.crashed
    /\ lk.at[g] = "unlock"
    /\ lk' = [lk EXCEPT !.w = 0, !.at[g] = "idle"]
    /\ UNCHANGED <<Cache, Stats>>
    /\ LKFrame

\* Get: cm.mu.RLock()
LKRLock(g, key) ==
    /\ LKMayCall(g)
    /\ lk.w = 0
    /\ lk' = [lk EXCEPT !.r = @ \cup {g}, !.calls = @ + 1, !.at[g] = "read",
                        !.call[g] = [NoCall EXCEPT !.op = "Get",
                                                   !.key = key]]
    /\ UNCHANGED <<Cache, Stats>>
    /\ LKFrame

\* Get: v, ok := cm.Cache[key]
LKRead(g) ==
    /\ ~lk.crashed
    /\ lk.at[g] = "read"
    /\ \E crash \in Crashes(g) :
         IF crash THEN Crash
         ELSE /\ lk' = [lk EXCEPT !.at[g] = "runlock",
                                  !.call[g].v = Lookup(Cache, lk.call[g].key)]
              /\ UNCHANGED <<Cache, Stats>>
    /\ LKFrame

\* Get: cm.mu.RUnlock(), then the expiry test and the counters
LKRUnlock(g) ==
    /\ ~lk.crashed
    /\ lk.at[g] = "runlock"
    /\ lk' = [lk EXCEPT !.r = @ \ {g}, !.at[g] = "idle"]
    /\ Stats' = GetCount(Stats, GetFound(lk.call[g].v, clock))
    /\ UNCHANGED Cache
    /\ LKFrame

\* Delete: called without cm.mu; the test _, ok := cm.Cache[key] is next
LKDeleteStart(g, key) ==
    /\ LKMayCall(g)
    /\ lk' = [lk EXCEPT !.calls = @ + 1, !.at[g] = "delete:check",
                        !.call[g] = [NoCall EXCEPT !.op = "Delete",
                                                   !.key = key]]
    /\ UNCHANGED <<Cache, Stats>>
    /\ LKFrame

\* Delete: if _, ok := cm.Cache[key]; ok
LKDeleteCheck(g) ==
    /\ ~lk.crashed
    /\ lk.at[g] = "delete:check"
    /\ \E crash \in Crashes(g) :
         IF crash THEN Crash
         ELSE /\ lk' = [lk EXCEPT !.at[g] =
                           IF lk.call[g].key \in DOMAIN Cache
                           THEN "delete:write" ELSE "idle"]
              /\ UNCHANGED <<Cache, Stats>>
    /\ LKFrame

\* Delete: delete(cm.Cache, key)
LKDeleteWrite(g) ==
    /\ ~lk.crashed
    /\ lk.at[g] = "delete:write"
    /\ \E crash \in Crashes(g) :
         IF crash THEN Crash
         ELSE /\ lk' = [lk EXCEPT !.at[g] = "idle"]
              /\ Cache' = MapDelete(Cache, lk.call[g].key)
              /\ UNCHANGED Stats
    /\ LKFrame

\* --------------------------------------------------------- specifications
InitCache ==
    /\ Cache = <<>>
    /\ Stats = CacheStats
    /\ clock = 0
    /\ reaper = "none"
    /\ cancelled = FALSE
    /\ tickPending = FALSE
    /\ nextTick = 0
    /\ lastOp = NoOp
    /\ opCount = 0
    /\ written = [k \in Keys |-> NeverWritten]
    /\ pc = <<>>
    /\ held = <<>>

\* NewRateLimiter(rate, capacity) at time 0 of the limiter's clock.
NewRateLimiter(rate, capacity) ==
    [Rate |-> rate, Capacity |-> capacity, CurrentTokensNum |-> capacity,
     LastUpdate |-> 0, panicked |-> FALSE]

NoHistory ==
    [calls |-> 0, mix |-> OnlyAllow, allows |-> 0, granted |-> 0,
     refilled |-> 0, emptyAt |-> -1, sinceEmpty |-> 0, firstGrant |-> -1,
     last |-> NoReturn]

InitLimiter ==
    /\ rl \in {NewRateLimiter(r, RLCapacity) : r \in RLRates}
    /\ rlpc = [g \in RLProcs |-> RLIdle]
    /\ rlh = NoHistory
    /\ rlclock = 0

\* The programs that a specification does not run stay as constructed.
IdleLimiter ==
    /\ rl = NewRateLimiter(1, RLCapacity)
    /\ rlpc = [g \in RLProcs |-> RLIdle]
    /\ rlh = NoHistory
    /\ rlclock = 0

IdleBalancer == lb = NewLoadBalancer

IdleLock == lk = NewLock

Init == InitCache /\ IdleLimiter /\ IdleBalancer /\ IdleLock

\* Any sequence of calls of the store's methods, at any times.
Next ==
    \/ \E k \in Keys, v \in Values : Set(k, v)
    \/ \E k \in Keys, v \in TTLValues, t \in TTLs : SetWithTTL(k, v, t)
    \/ \E k \in Keys : Get(k)
    \/ \E k \in Keys : Delete(k)
    \/ Clear
    \/ ClearByTTL
    \/ GetStats
    \/ AdvanceClock

Spec == Init /\ [][Next]_vars

\* A store with its reaper: the owner starts the reaper, inserts keys, reads
\* them and cancels; the reaper goroutine is scheduled fairly.
NextReaper ==
    \/ StartCleanup
    \/ Cancel
    \/ ReaperTick
    \/ ReaperExit
    \/ AdvanceTimed
    \/ \E k \in ReaperKeys : ReaperSet(k, "x")
    \/ \E k \in ReaperKeys, t \in TTLs : ReaperSetWithTTL(k, "y", t)
    \/ \E k \in ReaperKeys : Get(k)

SpecReaper ==
    /\ Init
    /\ [][NextReaper]_vars
    /\ WF_vars(ReaperTick)
    /\ WF_vars(ReaperExit)

\* The run of main().
InitMain ==
    /\ InitCache!1 /\ InitCache!2 /\ InitCache!3 /\ InitCache!4
    /\ InitCache!5 /\ InitCache!6 /\ InitCache!7 /\ InitCache!8
    /\ InitCache!9
    /\ IdleLimiter /\ IdleBalancer /\ IdleLock
    /\ written = [k \in Keys \cup {MainKey[i] : i \in 1..MainN} |->
                    NeverWritten]
    /\ pc = [i \in 1..MainN |-> "set"]
    /\ held = [i \in 1..MainN |->
                 [v |-> NoEntry, found |-> FALSE, value |-> Nil, at |-> -1]]

NextMain ==
    \/ \E i \in 1..MainN : MainSet(i)
    \/ \E i \in 1..MainN : MainGetLookup(i)
    \/ \E i \in 1..MainN : MainGetCheck(i)
    \/ AdvanceClock

SpecMain == InitMain /\ [][NextMain]_vars

\* One goroutine calls the limiter's methods one after the other.
InitRL == InitCache /\ InitLimiter /\ IdleBalancer /\ IdleLock

RLSteps(g) ==
    \/ RLAllowStart(g)
    \/ RLAllowCheck(g)
    \/ RLAllowDec(g)
    \/ RLGetAvailableTokens(g)
    \/ RLReset(g)
    \/ RLWaitStart(g, "Wait", 1)
    \/ \E n \in RLNs : RLWaitStart(g, "WaitN", n)
    \/ RLWaitCancel(g)
    \/ RLWaitTick(g)
    \/ RLWaitDec(g)

NextRLSeq == RLSteps(1) \/ RLElapse

SpecRLSeq == InitRL /\ [][NextRLSeq]_vars

\* The goroutines of LKProcs call the store's methods concurrently.
InitLock == InitCache /\ IdleLimiter /\ IdleBalancer /\ IdleLock

LKSteps(g) ==
    \/ \E op \in LKWriters, k \in LKKeys : LKLock(g, op, k)
    \/ LKWrite(g)
    \/ LKUnlock(g)
    \/ \E k \in LKKeys : LKRLock(g, k)
    \/ LKRead(g)
    \/ LKRUnlock(g)
    \/ \E k \in LKKeys : LKDeleteStart(g, k)
    \/ LKDeleteCheck(g)
    \/ LKDeleteWrite(g)

NextLock == (\E g \in LKProcs : LKSteps(g)) \/ AdvanceClock

SpecLock == InitLock /\ [][NextLock]_vars

\* One goroutine calls the load balancer.
InitLB == InitCache /\ IdleLimiter /\ IdleBalancer /\ IdleLock

NextLB ==
    \/ \E m \in LBMethods, done \in BOOLEAN : LBCall(m, done)
    \/ \E a \in LBAnswers, r \in LBReads : LBAttempt(a, r)

SpecLB == InitLB /\ [][NextLB]_vars

\* The goroutines of RLProcs call the limiter's methods concurrently.
NextRLConc == (\E g \in RLProcs : RLSteps(g)) \/ RLElapse

SpecRLConc == InitRL /\ [][NextRLConc]_vars

\* ================================================================ claims
IsCall == opCount' # opCount

Inserts == {"Set", "SetWithTTL"}

\* C1: in every reachable state the number of entries in the map is at most
\* the capacity.
C1_CapacityInvariant == CacheLen(Cache) <= Capacity

\* C2: a successful Get(key) sets the entry's lastAccess to the current
\* time.
C2_GetRefreshesLastAccess ==
    [][(IsCall /\ lastOp'.op = "Get" /\ lastOp'.found)
         => Cache'[lastOp'.key].LastAccess = clock']_vars

\* C3: with a full store whose keys were inserted at increasing times, after
\* a successful Get of the first inserted key, the Set of a new key leaves
\* that key in the store and evicts the least recently touched other key.
C3_ReadKeySurvivesEviction ==
    [][LET k0 == lastOp.key
           others == (DOMAIN Cache) \ {k0}
       IN  (/\ IsCall
            /\ lastOp.op = "Get" /\ lastOp.found
            /\ lastOp'.op \in Inserts
            /\ Full(Cache, lastOp'.key)
            /\ \A j \in others : /\ written[k0].at < written[j].at
                                 /\ written[j].at < lastOp.at
            /\ \A i, j \in others : i # j => written[i].at # written[j].at)
           => /\ k0 \in DOMAIN Cache'
              /\ \E j \in others :
                   /\ j \notin DOMAIN Cache'
                   /\ \A i \in others : written[j].at <= written[i].at]_vars

\* C4: a Get of a key issued more than TTL after the key's last insertion,
\* the key not read since, returns found = false, whether or not the entry
\* is still in the map.
C4_ExpiredGetMisses ==
    [][LET k == lastOp'.key
       IN  (/\ IsCall
            /\ lastOp'.op = "Get"
            /\ written[k].at >= 0
            /\ ~written[k].read
            /\ clock - written[k].at > written[k].ttl)
           => (~lastOp'.found /\ lastOp'.value = Nil)]_vars

\* C4 witness: a Get missed on an entry that is still in the map, was never
\* read and is older than its TTL.
C4_Witness ==
    /\ lastOp.op = "Get"
    /\ ~lastOp.found
    /\ lastOp.key \in DOMAIN Cache
    /\ ~written[lastOp.key].read
    /\ lastOp.at - written[lastOp.key].at > written[lastOp.key].ttl

\* C5: in main(), under every interleaving, no Set evicts, the store holds
\* exactly the N keys once the Sets are over, and every Get that runs within
\* the TTL returns found = true with the value set for its key.
C5_ConcurrentFillThenRead ==
    /\ Stats.Evictions = 0
    /\ (\A i \in 1..MainN : pc[i] # "set")
         => DOMAIN Cache = {MainKey[i] : i \in 1..MainN}
    /\ \A i \in 1..MainN :
         (pc[i] = "done" /\ held[i].at - written[MainKey[i]].at <= DefaultTTL)
            => (held[i].found /\ held[i].value = MainValue[i])

\* C5 witness: all of main's goroutines are done, the Sets and the Gets at
\* different times, and every Get hit.
C5_Witness ==
    /\ \A i \in 1..MainN : pc[i] = "done" /\ held[i].found
    /\ \E i, j \in 1..MainN : written[MainKey[i]].at < written[MainKey[j]].at
    /\ \E i, j \in 1..MainN : held[i].at < held[j].at
    /\ Stats.Hits = MainN

\* C6: with the reaper running and not cancelled, an inserted key that was
\* never read is out of the map once more than its TTL plus one reap
\* interval has passed since its insertion, a Get of it then misses, and
\* when that holds of all K inserted keys the evictions counter is K.
Inserted == {k \in DOMAIN written : written[k].at >= 0}

SweptOut(k, now) ==
    /\ ~written[k].read
    /\ now - written[k].at > written[k].ttl + CleanupTick

C7_StatsMonotonic ==
    [][/\ Stats'.Hits >= Stats.Hits
       /\ Stats'.Misses >= Stats.Misses
       /\ Stats'.Evictions >= Stats.Evictions
       /\ (IsCall /\ lastOp'.op = "Clear")
            => /\ Cache' = <<>>
               /\ Stats'.Hits = Stats.Hits
               /\ Stats'.Misses = Stats.Misses
               /\ Stats'.Evictions = Stats.Evictions]_vars

\* C7 witness: Clear has run on a store whose counters were not zero.
C7_Witness ==
    /\ lastOp.op = "Clear"
    /\ Cache = <<>>
    /\ Stats.Hits > 0
    /\ Stats.Misses + Stats.Evictions > 0

\* C8: Set/SetWithTTL leave the key in the map with the given value, the
\* default (Set) or given (SetWithTTL) TTL and lastAccess = now; an
\* overwrite changes no other entry and no counter; and the Get of the key
\* that follows a write within the TTL returns the written value.
C8_LastWriteWins ==
    [][/\ (IsCall /\ lastOp'.op \in Inserts)
            => LET k == lastOp'.key
               IN  /\ k \in DOMAIN Cache'
                   /\ Cache'[k] =
                        CacheValue(lastOp'.value,
                                   IF lastOp'.op = "Set" THEN DefaultTTL
                                   ELSE lastOp'.ttl,
                                   clock')
                   /\ k \in DOMAIN Cache
                        => /\ Stats' = Stats
                           /\ DOMAIN Cache' = DOMAIN Cache
                           /\ \A j \in (DOMAIN Cache) \ {k} :
                                Cache'[j] = Cache[j]
       /\ (/\ IsCall
           /\ lastOp.op \in Inserts
           /\ lastOp'.op = "Get"
           /\ lastOp'.key = lastOp.key
           /\ clock - lastOp.at <= lastOp.ttl)
            => (lastOp'.found /\ lastOp'.value = lastOp.value)]_vars

\* C8 witness: after a Get hit, a SetWithTTL has overwritten a key of a full
\* store at a later time, and the entry holds the new value, TTL and time.
C8_Witness ==
    /\ lastOp.op = "SetWithTTL"
    /\ lastOp.found
    /\ Stats.Hits > 0
    /\ CacheLen(Cache) = Capacity
    /\ Cache[lastOp.key] = CacheValue("y", 1, clock)
    /\ clock > 0

\* C9: every tick the reaper takes is a sweep by the running reaper, a
\* pending tick is served while the context is not cancelled, the reaper
\* terminates only when the context is cancelled, stays terminated, and
\* once the context is cancelled it eventually terminates.
C9_ReaperTermination ==
    /\ [][(tickPending /\ ~tickPending')
            => /\ reaper = "running"
               /\ Cache' = Sweep(Cache, Stats, clock).cache
               /\ Stats' = Sweep(Cache, Stats, clock).stats]_vars
    /\ [][reaper = "done" => reaper' = "done"]_vars
    /\ [][(reaper # "done" /\ reaper' = "done") => cancelled]_vars
    /\ (reaper = "running" /\ tickPending /\ ~cancelled)
         ~> (~tickPending \/ cancelled)
    /\ (reaper = "running" /\ cancelled) ~> (reaper = "done")

\* C9 witness: the reaper swept entries out and, cancelled, has terminated.
C9_Witness ==
    /\ reaper = "done"
    /\ cancelled
    /\ Stats.Evictions > 0

\* C10: the Size GetStats returns is the number of entries in the map, and
\* the counters it returns are the current ones.
C10_SnapshotSize ==
    lastOp.op = "GetStats"
        => /\ lastOp.stats.Size = CacheLen(Cache)
           /\ lastOp.stats.Hits = Stats.Hits
           /\ lastOp.stats.Misses = Stats.Misses
           /\ lastOp.stats.Evictions = Stats.Evictions

\* C16: an insert of a new key into a map of exactly capacity entries
\* removes exactly one entry and adds exactly 1 to evictions; any other
\* insert removes no entry and leaves evictions unchanged.
C16_OneEvictionPerFullInsert ==
    [][(IsCall /\ lastOp'.op \in Inserts)
         => LET removed == (DOMAIN Cache) \ (DOMAIN Cache')
                full == /\ lastOp'.key \notin DOMAIN Cache
                        /\ Cardinality(DOMAIN Cache) = Capacity
            IN  IF full
                THEN /\ Cardinality(removed) = 1
                     /\ Stats'.Evictions = Stats.Evictions + 1
                ELSE /\ removed = {}
                     /\ Stats'.Evictions = Stats.Evictions]_vars

C18_SweepExact ==
    [][(IsCall /\ lastOp'.op = "ClearByTTL")
         => LET stale == {k \in DOMAIN Cache :
                            clock - Cache[k].LastAccess > Cache[k].TTL}
            IN  /\ DOMAIN Cache' = (DOMAIN Cache) \ stale
                /\ \A k \in DOMAIN Cache' : Cache'[k] = Cache[k]
                /\ Stats'.Evictions = Stats.Evictions + Cardinality(stale)
                /\ Stats'.Hits = Stats.Hits
                /\ Stats'.Misses = Stats.Misses
                /\ (lastOp.op = "ClearByTTL" /\ lastOp.at = clock)
                     => (Cache' = Cache /\ Stats' = Stats)]_vars

\* C18 witness: a second sweep at the time of a first one that removed an
\* entry and kept another.
C18_Witness ==
    /\ lastOp.op = "ClearByTTL"
    /\ opCount = 4
    /\ Stats.Evictions = 1
    /\ CacheLen(Cache) = 1
    /\ \A k \in DOMAIN Cache : clock - Cache[k].LastAccess = Cache[k].TTL

\* C19: a Get returns found = true exactly when the key is in the map and
\* its age is at most its TTL, adds 1 to hits then and 1 to misses
\* otherwise, and changes neither the map nor evictions; no other call
\* changes hits or misses.
C19_GetAccounting ==
    [][IF IsCall /\ lastOp'.op = "Get"
       THEN LET k == lastOp'.key
                live == /\ k \in DOMAIN Cache
                        /\ clock - Cache[k].LastAccess <= Cache[k].TTL
            IN  /\ lastOp'.found = live
                /\ Stats'.Hits = Stats.Hits + (IF live THEN 1 ELSE 0)
                /\ Stats'.Misses = Stats.Misses + (IF live THEN 0 ELSE 1)
                /\ Stats'.Evictions = Stats.Evictions
                /\ Cache' = Cache
       ELSE /\ Stats'.Hits = Stats.Hits
            /\ Stats'.Misses = Stats.Misses]_vars

\* C19 witness: after a hit, a Get found its entry expired, counted a miss
\* and left the entry in the map.
C19_Witness ==
    /\ lastOp.op = "Get"
    /\ ~lastOp.found
    /\ lastOp.key \in DOMAIN Cache
    /\ Stats.Hits = 1
    /\ Stats.Misses = 1
    /\ Stats.Evictions = 0


\* ------------------------------------------------------ rate limiter claims
\* Less than 1/Rate seconds have passed since NewRateLimiter.
NoRefillEarned == rlclock * rl.Rate < TicksPerSecond

\* C11: burst.  While less than 1/Rate seconds have passed since the limiter
\* was created with capacity C and one goroutine has only called Allow, the
\* first C calls returned true and took one token each, and every later
\* call returned false and left the token count as it was.
C11_Burst ==
    (/\ rlh.mix = OnlyAllow
     /\ rlpc[1].pc = "idle"
     /\ NoRefillEarned)
    => /\ rlh.granted = Min(rlh.allows, rl.Capacity)
       /\ rl.CurrentTokensNum = rl.Capacity - rlh.granted
       /\ rlh.allows > 0
          => /\ rlh.last.op = "Allow"
             /\ rlh.last.res = IF rlh.allows <= rl.Capacity
                               THEN "true" ELSE "false"

\* The bucket was drained by C calls of Allow and the next one was refused,
\* after some time but before a token was earned.
C11_Witness ==
    /\ rlh.mix = OnlyAllow
    /\ rlpc[1].pc = "idle"
    /\ NoRefillEarned
    /\ rlclock > 0
    /\ rlh.allows = rl.Capacity + 1
    /\ rlh.granted = rl.Capacity
    /\ rlh.last = Returned("Allow", "false")
    /\ rl.CurrentTokensNum = 0


\* Whole seconds since the bucket was first emptied.
SecondsSinceEmpty == (rlclock - rlh.emptyAt) \div TicksPerSecond

\* Allow has just refused a call, a whole positive number of seconds after
\* the bucket was emptied; since then only Allow and GetAvailableTokens were
\* called and no token was taken before the present instant.
RefusedAfterRefill ==
    /\ rlh.mix \in {OnlyAllow, OnlyReads}
    /\ rlpc[1].pc = "idle"
    /\ rlh.emptyAt >= 0
    /\ rlclock > rlh.emptyAt
    /\ (rlclock - rlh.emptyAt) % TicksPerSecond = 0
    /\ rlh.last = Returned("Allow", "false")
    /\ rlh.firstGrant \in {-1, rlclock}

\* C12: refill.  When Allow refuses a call d whole seconds after the bucket
\* was emptied, exactly min(d * Rate, Capacity) calls of Allow have succeeded
\* at that instant, whatever calls of Allow and GetAvailableTokens were made
\* during the d seconds.
C12_RefillExact ==
    RefusedAfterRefill
    => rlh.sinceEmpty = Min(SecondsSinceEmpty * rl.Rate, rl.Capacity)


\* C13: blocking acquire.  After Wait or WaitN has returned nil the tokens it
\* took were there to take: CurrentTokensNum is not below 0.  (A return of
\* the context's error takes nothing: RLWaitCancel leaves rl as it was.)
C13_WaitNeverOverdraws ==
    (/\ rlh.last.op \in {"Wait", "WaitN"}
     /\ rlh.last.res = "nil"
     /\ rlpc[1].pc = "idle")
    => rl.CurrentTokensNum >= 0

\* C20: token bounds under concurrency.  In every state reached by goroutines
\* that call Allow, Wait, WaitN, GetAvailableTokens and Reset concurrently,
\* 0 <= CurrentTokensNum <= Capacity, and Allow has returned true at most
\* Capacity plus the number of refilled tokens times.
C20_TokenBounds ==
    /\ 0 <= rl.CurrentTokensNum
    /\ rl.CurrentTokensNum <= rl.Capacity
    /\ rlh.granted <= rl.Capacity + rlh.refilled


\* ----------------------------------------------------- load balancer claim
\* The passes of the call in progress or last completed that failed.
FailedTry(i) == lb.answers[i] \in {"5xx", "err", "redirectErr"}

\* C14: retry.  Within one call of Get or Post an attempt that follows a
\* failed attempt goes to the next backend in round-robin order; at most 3
\* attempts are made; the body returned is that of the first answer that is
\* not a failure; an error is returned when 3 attempts have failed.
C14_RetryNextBackend ==
    /\ Len(lb.tried) <= 3
    /\ \A i \in 1 .. Len(lb.tried) - 1 :
          /\ FailedTry(i)
          /\ lb.tried[i + 1] = (lb.tried[i] + 1) % NumBackends
    /\ lb.result.kind = "body"
       => /\ ~FailedTry(Len(lb.tried))
          /\ lb.result.from = lb.tried[Len(lb.tried)]
    /\ lb.result.kind = "error"
       => /\ Len(lb.tried) = 3
          /\ \A i \in 1 .. 3 : FailedTry(i)


\* ------------------------------------------------------------- lock claim
\* C15: exclusive access for structural mutations.  Whenever a goroutine is
\* writing the entry map (insert, delete, eviction, Clear or sweep) it holds
\* the write lock, and no other goroutine is reading or writing the map.
C15_ExclusiveMutation ==
    \A g \in LKProcs :
        MapWriter(g)
        => /\ lk.w = g
           /\ \A h \in LKProcs \ {g} : ~MapWriter(h) /\ ~MapReader(h)

====
